---- MODULE Spec2Model ----
(***************************************************************************)
(* LockerRentalApp client: the API client with its two interceptors, the   *)
(* persisted session storage, and the three Redux state containers (auth,  *)
(* business, booking) with the asynchronous thunks that feed them.         *)
(*                                                                         *)
(* A thunk is one record of the sequence `inflight`, kept in dispatch      *)
(* order.  Every `await` of the source that lets another task run is a     *)
(* separate step of the record's `phase`; everything between two awaits is *)
(* one atomic step.  An AsyncStorage call takes effect when it is issued.  *)
(***************************************************************************)
EXTENDS Integers, Sequences, FiniteSets, TLC

VARIABLES storage, auth, business, booking, displayBusinesses, inflight, lastAction,
          dev, map, geo, ui

vars == <<storage, auth, business, booking, displayBusinesses, inflight, lastAction,
          dev, map, geo, ui>>

(***************************************************************************)
(* Bounds of the model.                                                    *)
(***************************************************************************)
MaxInFlight == 2
MaxBookings == 2

(***************************************************************************)
(* Values.                                                                 *)
(***************************************************************************)
NULL == "null"
Users == {"u1", "u2"}
Tokens == {"t1", "t2"}
AuthResponse == {[user |-> "u1", token |-> "t1"], [user |-> "u2", token |-> "t2"]}
NoResponse == [user |-> NULL, token |-> NULL]

\* JSON.stringify / JSON.parse of a user record
JSONstringify(u) == IF u = "u1" THEN "{_id:u1}" ELSE "{_id:u2}"
JSONparse(s) == IF s = "{_id:u1}" THEN "u1" ELSE "u2"

Business == {"b1", "b2"}
BusinessLists == {<<>>, <<"b1">>, <<"b2", "b1">>}
SearchBusinessesRequest == {"zipCode", "name"}

BookingIds == {"k1", "k2"}
BookingStatus == {"confirmed", "active"}
Booking == [_id : BookingIds, status : BookingStatus]
NoBooking == [_id |-> NULL, status |-> NULL]

ServerMessage == "server message"

(***************************************************************************)
(* Sequence helpers, as the JavaScript array methods compute them.         *)
(***************************************************************************)
\* Array.prototype.findIndex(b => b._id === id); 0 stands for -1
RECURSIVE findIndexFrom(_, _, _)
findIndexFrom(list, id, i) ==
  IF i > Len(list) THEN 0
  ELSE IF list[i]._id = id THEN i
  ELSE findIndexFrom(list, id, i + 1)

findIndex(list, id) == findIndexFrom(list, id, 1)

\* Array.prototype.splice(i, 1)
splice(list, i) == SubSeq(list, 1, i - 1) \o SubSeq(list, i + 1, Len(list))

\* Array.prototype.unshift(x)
unshift(list, x) == <<x>> \o list

\* Array.prototype.push(x)
push(list, x) == Append(list, x)

(***************************************************************************)
(* authSlice                                                               *)
(***************************************************************************)
authInitialState ==
  [user |-> NULL, token |-> NULL, isLoading |-> FALSE,
   isAuthenticated |-> FALSE, error |-> NULL]

loginUser_pending(state) ==
  [state EXCEPT !.isLoading = TRUE, !.error = NULL]

loginUser_fulfilled(state, payload) ==
  [state EXCEPT !.isLoading = FALSE, !.user = payload.user,
                !.token = payload.token, !.isAuthenticated = TRUE,
                !.error = NULL]

loginUser_rejected(state, payload) ==
  [state EXCEPT !.isLoading = FALSE, !.error = payload,
                !.isAuthenticated = FALSE]

registerUser_pending(state) ==
  [state EXCEPT !.isLoading = TRUE, !.error = NULL]

registerUser_fulfilled(state, payload) ==
  [state EXCEPT !.isLoading = FALSE, !.user = payload.user,
                !.token = payload.token, !.isAuthenticated = TRUE,
                !.error = NULL]

registerUser_rejected(state, payload) ==
  [state EXCEPT !.isLoading = FALSE, !.error = payload,
                !.isAuthenticated = FALSE]

loadStoredAuth_pending(state) ==
  [state EXCEPT !.isLoading = TRUE]

loadStoredAuth_fulfilled(state, payload) ==
  [state EXCEPT !.isLoading = FALSE, !.user = payload.user,
                !.token = payload.token, !.isAuthenticated = TRUE]

loadStoredAuth_rejected(state) ==
  [state EXCEPT !.isLoading = FALSE, !.isAuthenticated = FALSE]

logoutUser_fulfilled(state) ==
  [state EXCEPT !.user = NULL, !.token = NULL, !.isAuthenticated = FALSE,
                !.error = NULL]

updateProfile_pending(state) ==
  [state EXCEPT !.isLoading = TRUE, !.error = NULL]

updateProfile_fulfilled(state, payload) ==
  [state EXCEPT !.isLoading = FALSE, !.user = payload, !.error = NULL]

updateProfile_rejected(state, payload) ==
  [state EXCEPT !.isLoading = FALSE, !.error = payload]

authReducer(state, action) ==
  LET t == action.thunk
      p == action.phase
  IN
  CASE t = "loginUser" /\ p = "pending" -> loginUser_pending(state)
    [] t = "loginUser" /\ p = "fulfilled" -> loginUser_fulfilled(state, action.payload)
    [] t = "loginUser" /\ p = "rejected" -> loginUser_rejected(state, action.payload)
    [] t = "registerUser" /\ p = "pending" -> registerUser_pending(state)
    [] t = "registerUser" /\ p = "fulfilled" -> registerUser_fulfilled(state, action.payload)
    [] t = "registerUser" /\ p = "rejected" -> registerUser_rejected(state, action.payload)
    [] t = "loadStoredAuth" /\ p = "pending" -> loadStoredAuth_pending(state)
    [] t = "loadStoredAuth" /\ p = "fulfilled" -> loadStoredAuth_fulfilled(state, action.payload)
    [] t = "loadStoredAuth" /\ p = "rejected" -> loadStoredAuth_rejected(state)
    [] t = "logoutUser" /\ p = "fulfilled" -> logoutUser_fulfilled(state)
    [] t = "updateProfile" /\ p = "pending" -> updateProfile_pending(state)
    [] t = "updateProfile" /\ p = "fulfilled" -> updateProfile_fulfilled(state, action.payload)
    [] t = "updateProfile" /\ p = "rejected" -> updateProfile_rejected(state, action.payload)
    [] OTHER -> state

(***************************************************************************)
(* businessSlice                                                           *)
(***************************************************************************)
businessInitialState ==
  [businesses |-> <<>>, selectedBusiness |-> NULL, nearbyBusinesses |-> <<>>,
   isLoading |-> FALSE, error |-> NULL, searchParams |-> NULL]

business_clearError(state) ==
  [state EXCEPT !.error = NULL]

setSelectedBusiness(state, payload) ==
  [state EXCEPT !.selectedBusiness = payload]

clearBusinesses(state) ==
  [state EXCEPT !.businesses = <<>>, !.nearbyBusinesses = <<>>,
                !.selectedBusiness = NULL, !.searchParams = NULL]

searchBusinesses_pending(state) ==
  [state EXCEPT !.isLoading = TRUE, !.error = NULL]

\* variant: a response is dropped when newer results are already held
searchBusinesses_fulfilled_guarded(state, payload) ==
  IF state.searchParams # NULL
  THEN [state EXCEPT !.isLoading = FALSE, !.error = NULL]
  ELSE [state EXCEPT !.isLoading = FALSE, !.businesses = payload.businesses,
                     !.searchParams = payload.params, !.error = NULL]

searchBusinesses_fulfilled(state, payload) ==
  [state EXCEPT !.isLoading = FALSE, !.businesses = payload.businesses,
                !.searchParams = payload.params, !.error = NULL]

searchBusinesses_rejected(state, payload) ==
  [state EXCEPT !.isLoading = FALSE, !.error = payload]

fetchNearbyBusinesses_pending(state) ==
  [state EXCEPT !.isLoading = TRUE, !.error = NULL]

\* variant: a nearby result also resets the search results
fetchNearbyBusinesses_fulfilled_resetting(state, payload) ==
  [state EXCEPT !.isLoading = FALSE, !.nearbyBusinesses = payload,
                !.businesses = <<>>, !.searchParams = NULL, !.error = NULL]

fetchNearbyBusinesses_fulfilled(state, payload) ==
  [state EXCEPT !.isLoading = FALSE, !.nearbyBusinesses = payload,
                !.error = NULL]

fetchNearbyBusinesses_rejected(state, payload) ==
  [state EXCEPT !.isLoading = FALSE, !.error = payload]

fetchBusinessById_pending(state) ==
  [state EXCEPT !.isLoading = TRUE, !.error = NULL]

fetchBusinessById_fulfilled(state, payload) ==
  [state EXCEPT !.isLoading = FALSE, !.selectedBusiness = payload,
                !.error = NULL]

fetchBusinessById_rejected(state, payload) ==
  [state EXCEPT !.isLoading = FALSE, !.error = payload]

businessReducer(state, action) ==
  LET t == action.thunk
      p == action.phase
  IN
  CASE t = "business/clearError" -> business_clearError(state)
    [] t = "setSelectedBusiness" -> setSelectedBusiness(state, action.payload)
    [] t = "clearBusinesses" -> clearBusinesses(state)
    [] t = "searchBusinesses" /\ p = "pending" -> searchBusinesses_pending(state)
    [] t = "searchBusinesses" /\ p = "fulfilled" -> searchBusinesses_fulfilled(state, action.payload)
    [] t = "searchBusinesses" /\ p = "rejected" -> searchBusinesses_rejected(state, action.payload)
    [] t = "fetchNearbyBusinesses" /\ p = "pending" -> fetchNearbyBusinesses_pending(state)
    [] t = "fetchNearbyBusinesses" /\ p = "fulfilled" -> fetchNearbyBusinesses_fulfilled(state, action.payload)
    [] t = "fetchNearbyBusinesses" /\ p = "rejected" -> fetchNearbyBusinesses_rejected(state, action.payload)
    [] t = "fetchBusinessById" /\ p = "pending" -> fetchBusinessById_pending(state)
    [] t = "fetchBusinessById" /\ p = "fulfilled" -> fetchBusinessById_fulfilled(state, action.payload)
    [] t = "fetchBusinessById" /\ p = "rejected" -> fetchBusinessById_rejected(state, action.payload)
    [] OTHER -> state

\* variant: the two lists are shown together
displayBusinessesOf_merged(businesses, nearbyBusinesses) ==
  businesses \o nearbyBusinesses

\* SearchScreen: the memoised list the screen renders
displayBusinessesOf(businesses, nearbyBusinesses) ==
  IF Len(businesses) > 0 THEN businesses
  ELSE IF Len(nearbyBusinesses) > 0 THEN nearbyBusinesses
  ELSE <<>>

(***************************************************************************)
(* bookingSlice                                                            *)
(***************************************************************************)
bookingInitialState ==
  [bookings |-> <<>>, activeBookings |-> <<>>, selectedBooking |-> NoBooking,
   isLoading |-> FALSE, error |-> NULL]

booking_clearError(state) ==
  [state EXCEPT !.error = NULL]

setSelectedBooking(state, payload) ==
  [state EXCEPT !.selectedBooking = payload]

clearBookings(state) ==
  [state EXCEPT !.bookings = <<>>, !.activeBookings = <<>>,
                !.selectedBooking = NoBooking]

\* bookings[index] = payload when findIndex found the id
replaceById(list, payload) ==
  LET index == findIndex(list, payload._id)
  IN IF index # 0 THEN [list EXCEPT ![index] = payload] ELSE list

\* splice(activeIndex, 1) when findIndex found the id
removeById(list, payload) ==
  LET activeIndex == findIndex(list, payload._id)
  IN IF activeIndex # 0 THEN splice(list, activeIndex) ELSE list

\* if (state.selectedBooking?._id === payload._id) state.selectedBooking = payload
reselect(selected, payload) ==
  IF selected # NoBooking /\ selected._id = payload._id THEN payload ELSE selected

createBooking_pending(state) ==
  [state EXCEPT !.isLoading = TRUE, !.error = NULL]

\* variant: the new booking is appended
createBooking_fulfilled_pushing(state, payload) ==
  [state EXCEPT !.isLoading = FALSE,
                !.bookings = push(state.bookings, payload),
                !.activeBookings =
                   IF payload.status = "active"
                   THEN push(state.activeBookings, payload)
                   ELSE state.activeBookings,
                !.error = NULL]

createBooking_fulfilled(state, payload) ==
  [state EXCEPT !.isLoading = FALSE,
                !.bookings = unshift(state.bookings, payload),
                !.activeBookings =
                   IF payload.status = "active"
                   THEN unshift(state.activeBookings, payload)
                   ELSE state.activeBookings,
                !.error = NULL]

createBooking_rejected(state, payload) ==
  [state EXCEPT !.isLoading = FALSE, !.error = payload]

fetchUserBookings_pending(state) ==
  [state EXCEPT !.isLoading = TRUE, !.error = NULL]

fetchUserBookings_fulfilled(state, payload) ==
  [state EXCEPT !.isLoading = FALSE, !.bookings = payload, !.error = NULL]

fetchUserBookings_rejected(state, payload) ==
  [state EXCEPT !.isLoading = FALSE, !.error = payload]

fetchActiveBookings_fulfilled(state, payload) ==
  [state EXCEPT !.activeBookings = payload]

updateBookingStatus_fulfilled(state, payload) ==
  LET activeIndex == findIndex(state.activeBookings, payload._id)
  IN
  [state EXCEPT !.bookings = replaceById(state.bookings, payload),
                !.activeBookings =
                   IF payload.status = "active" /\ activeIndex = 0
                   THEN push(state.activeBookings, payload)
                   ELSE IF payload.status # "active" /\ activeIndex # 0
                   THEN splice(state.activeBookings, activeIndex)
                   ELSE IF activeIndex # 0
                   THEN [state.activeBookings EXCEPT ![activeIndex] = payload]
                   ELSE state.activeBookings,
                !.selectedBooking = reselect(state.selectedBooking, payload)]

cancelBooking_pending(state) ==
  [state EXCEPT !.isLoading = TRUE, !.error = NULL]

\* variant: the active list is left alone
cancelBooking_fulfilled_keeping(state, payload) ==
  [state EXCEPT !.isLoading = FALSE,
                !.bookings = replaceById(state.bookings, payload),
                !.selectedBooking = reselect(state.selectedBooking, payload),
                !.error = NULL]

cancelBooking_fulfilled(state, payload) ==
  [state EXCEPT !.isLoading = FALSE,
                !.bookings = replaceById(state.bookings, payload),
                !.activeBookings = removeById(state.activeBookings, payload),
                !.selectedBooking = reselect(state.selectedBooking, payload),
                !.error = NULL]

cancelBooking_rejected(state, payload) ==
  [state EXCEPT !.isLoading = FALSE, !.error = payload]

checkInToLocker_fulfilled(state, payload) ==
  [state EXCEPT !.bookings = replaceById(state.bookings, payload),
                !.activeBookings = replaceById(state.activeBookings, payload),
                !.selectedBooking = reselect(state.selectedBooking, payload)]

checkOutFromLocker_fulfilled(state, payload) ==
  [state EXCEPT !.bookings = replaceById(state.bookings, payload),
                !.activeBookings = removeById(state.activeBookings, payload),
                !.selectedBooking = reselect(state.selectedBooking, payload)]

bookingReducer(state, action) ==
  LET t == action.thunk
      p == action.phase
  IN
  CASE t = "booking/clearError" -> booking_clearError(state)
    [] t = "setSelectedBooking" -> setSelectedBooking(state, action.payload)
    [] t = "clearBookings" -> clearBookings(state)
    [] t = "createBooking" /\ p = "pending" -> createBooking_pending(state)
    [] t = "createBooking" /\ p = "fulfilled" -> createBooking_fulfilled(state, action.payload)
    [] t = "createBooking" /\ p = "rejected" -> createBooking_rejected(state, action.payload)
    [] t = "fetchUserBookings" /\ p = "pending" -> fetchUserBookings_pending(state)
    [] t = "fetchUserBookings" /\ p = "fulfilled" -> fetchUserBookings_fulfilled(state, action.payload)
    [] t = "fetchUserBookings" /\ p = "rejected" -> fetchUserBookings_rejected(state, action.payload)
    [] t = "fetchActiveBookings" /\ p = "fulfilled" -> fetchActiveBookings_fulfilled(state, action.payload)
    [] t = "updateBookingStatus" /\ p = "fulfilled" -> updateBookingStatus_fulfilled(state, action.payload)
    [] t = "cancelBooking" /\ p = "pending" -> cancelBooking_pending(state)
    [] t = "cancelBooking" /\ p = "fulfilled" -> cancelBooking_fulfilled(state, action.payload)
    [] t = "cancelBooking" /\ p = "rejected" -> cancelBooking_rejected(state, action.payload)
    [] t = "checkInToLocker" /\ p = "fulfilled" -> checkInToLocker_fulfilled(state, action.payload)
    [] t = "checkOutFromLocker" /\ p = "fulfilled" -> checkOutFromLocker_fulfilled(state, action.payload)
    [] OTHER -> state

(***************************************************************************)
(* The store: every action goes through the three slice reducers.          *)
(* lastAction is the type of the action the store reduced last; stale says *)
(* that a thunk of the same type that was dispatched later had already     *)
(* been fulfilled when this one completed.                                 *)
(***************************************************************************)
Action(thunk, phase, payload) ==
  [thunk |-> thunk, phase |-> phase, payload |-> payload, stale |-> FALSE]

typeOf(action) ==
  [thunk |-> action.thunk, phase |-> action.phase, stale |-> action.stale]

reduce(state, action) ==
  [auth |-> authReducer(state.auth, action),
   business |-> businessReducer(state.business, action),
   booking |-> bookingReducer(state.booking, action)]

RECURSIVE reduceAll(_, _)
reduceAll(state, actions) ==
  IF actions = <<>> THEN state
  ELSE reduceAll(reduce(state, Head(actions)), Tail(actions))

\* the build flag, the map component, the location service and the booking
\* screens are no part of the store
componentsUnchanged == UNCHANGED <<dev, map, geo, ui>>

\* store.dispatch of one or more actions in the same task
storeReduce(actions) ==
  LET next == reduceAll([auth |-> auth, business |-> business, booking |-> booking], actions)
  IN /\ auth' = next.auth
     /\ business' = next.business
     /\ booking' = next.booking
     /\ displayBusinesses' =
          displayBusinessesOf(next.business.businesses, next.business.nearbyBusinesses)
     /\ lastAction' = typeOf(actions[Len(actions)])

storeDispatch(actions) ==
  /\ storeReduce(actions)
  /\ componentsUnchanged

storeUnchanged ==
  /\ UNCHANGED <<auth, business, booking, displayBusinesses, lastAction>>
  /\ componentsUnchanged

(***************************************************************************)
(* Thunks in flight.                                                       *)
(***************************************************************************)
Thunk(op, phase, hdr, arg, resp) ==
  [op |-> op, phase |-> phase, hdr |-> hdr, arg |-> arg, resp |-> resp,
   overtaken |-> FALSE]

\* variant: the header is set whatever was read
Authorization_always(token) == "Bearer " \o token

\* request interceptor: Authorization header from the persisted token
Authorization(token) == IF token # NULL THEN "Bearer " \o token ELSE NULL

\* a thunk that ends fulfilled leaves the sequence and marks the thunks of
\* the same type dispatched before it
retire(i) ==
  LET marked == [j \in 1..Len(inflight) |->
                   IF j < i /\ inflight[j].op = inflight[i].op
                   THEN [inflight[j] EXCEPT !.overtaken = TRUE]
                   ELSE inflight[j]]
  IN splice(marked, i)

fulfilled(i, payload) ==
  [Action(inflight[i].op, "fulfilled", payload) EXCEPT !.stale = inflight[i].overtaken]

rejected(i, payload) ==
  [Action(inflight[i].op, "rejected", payload) EXCEPT !.stale = inflight[i].overtaken]

(***************************************************************************)
(* Failures of a request and the message each thunk derives from them.     *)
(***************************************************************************)
ErrorStatus == {"network", "timeout", "400", "401", "500"}

ApiError ==
  {e \in [status : ErrorStatus, message : {NULL, ServerMessage}] :
     e.status \in {"network", "timeout"} => e.message = NULL}

defaultMessage(op) ==
  CASE op = "loginUser" -> "Login failed"
    [] op = "registerUser" -> "Registration failed"
    [] op = "updateProfile" -> "Profile update failed"
    [] op = "searchBusinesses" -> "Search failed"
    [] op = "fetchNearbyBusinesses" -> "Failed to fetch nearby businesses"
    [] op = "fetchBusinessById" -> "Failed to fetch business"
    [] op = "createBooking" -> "Failed to create booking"
    [] op = "fetchUserBookings" -> "Failed to fetch bookings"
    [] op = "fetchActiveBookings" -> "Failed to fetch active bookings"
    [] op = "updateBookingStatus" -> "Failed to update booking"
    [] op = "cancelBooking" -> "Failed to cancel booking"
    [] op = "checkInToLocker" -> "Failed to check in"
    [] op = "checkOutFromLocker" -> "Failed to check out"

\* the catch block of each thunk
rejectValue(op, error) ==
  CASE op = "searchBusinesses" ->
         IF error.status = "network"
         THEN "Network connection failed. Check if backend is running."
         ELSE IF error.status = "500"
         THEN "Server error occurred. Check backend logs."
         ELSE IF error.message # NULL THEN error.message
         ELSE "Search failed"
    [] op = "fetchNearbyBusinesses" ->
         IF error.status \in {"network", "timeout"}
         THEN "Network connection failed. Check if backend is running."
         ELSE IF error.status = "500"
         THEN "Server error occurred. Check backend logs."
         ELSE IF error.message # NULL THEN error.message
         ELSE "Failed to fetch nearby businesses"
    [] OTHER ->
         IF error.message # NULL THEN error.message ELSE defaultMessage(op)

(***************************************************************************)
(* What the server can answer to each endpoint with status 200.            *)
(***************************************************************************)
BookingLists ==
  {<<>>} \cup {<<b>> : b \in Booking}
         \cup {<<a, b>> : a, b \in Booking}

UniqueIds(list) ==
  \A i, j \in 1..Len(list) : list[i]._id = list[j]._id => i = j

ResponseData(op, arg) ==
  CASE op \in {"loginUser", "registerUser"} -> AuthResponse
    [] op = "updateProfile" -> Users
    [] op = "searchBusinesses" ->
         {[businesses |-> l, params |-> arg] : l \in BusinessLists}
    [] op = "fetchNearbyBusinesses" -> BusinessLists
    [] op = "fetchBusinessById" -> Business
    [] op \in {"fetchUserBookings", "fetchActiveBookings"} ->
         {l \in BookingLists : UniqueIds(l)}
    [] OTHER -> Booking

(***************************************************************************)
(* Dispatching a thunk: createAsyncThunk reduces `pending` at once and     *)
(* starts the payload creator, which runs up to its first await.  A thunk  *)
(* that calls the API client has then had its request prepared by the      *)
(* request interceptor.                                                    *)
(***************************************************************************)
room == Len(inflight) < MaxInFlight

\* AppNavigator: the authenticated routes are mounted only while state.auth.user is set
signedIn == auth.user # NULL

dispatchApi(op, arg) ==
  /\ room
  /\ storeDispatch(<<Action(op, "pending", NULL)>>)
  /\ inflight' = Append(inflight,
       Thunk(op, "sent", Authorization(storage.auth_token), arg, NoResponse))
  /\ UNCHANGED storage

DispatchLoginUser ==
  /\ ~signedIn
  /\ dispatchApi("loginUser", NULL)

DispatchRegisterUser ==
  /\ ~signedIn
  /\ dispatchApi("registerUser", NULL)

\* ProfileScreen.handleSaveProfile; the thunk rejects at once without a user,
\* and the Save button is disabled while state.auth.isLoading
DispatchUpdateProfile ==
  /\ signedIn
  /\ ~auth.isLoading
  /\ dispatchApi("updateProfile", NULL)

\* reads auth_token, then awaits
DispatchLoadStoredAuth ==
  /\ room
  /\ storeDispatch(<<Action("loadStoredAuth", "pending", NULL)>>)
  /\ inflight' = Append(inflight,
       Thunk("loadStoredAuth", "getUserData", NULL, NULL,
             [user |-> NULL, token |-> storage.auth_token]))
  /\ UNCHANGED storage

\* reads user_data and returns
loadGetUserData(i) ==
  /\ inflight[i].phase = "getUserData"
  /\ LET token == inflight[i].resp.token
         userData == storage.user_data
     IN IF token # NULL /\ userData # NULL
        THEN /\ storeDispatch(<<fulfilled(i, [user |-> JSONparse(userData), token |-> token])>>)
             /\ inflight' = retire(i)
        ELSE /\ storeDispatch(<<rejected(i, "No stored auth data")>>)
             /\ inflight' = splice(inflight, i)
  /\ UNCHANGED storage

LoadGetUserData ==
  \E i \in DOMAIN inflight : loadGetUserData(i)

\* ProfileScreen.handleLogout: removes auth_token, then awaits
DispatchLogoutUser ==
  /\ signedIn
  /\ room
  /\ storeDispatch(<<Action("logoutUser", "pending", NULL)>>)
  /\ storage' = [storage EXCEPT !.auth_token = NULL]
  /\ inflight' = Append(inflight,
       Thunk("logoutUser", "logoutRemoveUserData", NULL, NULL, NoResponse))

LogoutRemoveUserData ==
  \E i \in DOMAIN inflight :
    /\ inflight[i].phase = "logoutRemoveUserData"
    /\ storage' = [storage EXCEPT !.user_data = NULL]
    /\ inflight' = [inflight EXCEPT ![i].phase = "logoutReturn"]
    /\ storeUnchanged

logoutReturn(i) ==
  /\ inflight[i].phase = "logoutReturn"
  /\ storeDispatch(<<fulfilled(i, NULL)>>)
  /\ inflight' = retire(i)
  /\ UNCHANGED storage

LogoutReturn ==
  \E i \in DOMAIN inflight : logoutReturn(i)

(***************************************************************************)
(* The answer of the server and the response interceptor.                  *)
(***************************************************************************)
\* login / register: 200, then setItem('auth_token') and await
AuthRespond200 ==
  \E i \in DOMAIN inflight :
    /\ inflight[i].phase = "sent"
    /\ inflight[i].op \in {"loginUser", "registerUser"}
    /\ \E response \in ResponseData(inflight[i].op, inflight[i].arg) :
         /\ storage' = [storage EXCEPT !.auth_token = response.token]
         /\ inflight' = [inflight EXCEPT ![i].phase = "setUserData",
                                         ![i].resp = response]
    /\ storeUnchanged

\* login / register: setItem('user_data') and await
SetUserData ==
  \E i \in DOMAIN inflight :
    /\ inflight[i].phase = "setUserData"
    /\ storage' = [storage EXCEPT !.user_data = JSONstringify(inflight[i].resp.user)]
    /\ inflight' = [inflight EXCEPT ![i].phase = "return"]
    /\ storeUnchanged

\* updateProfile: 200, then setItem('user_data') and await
ProfileRespond200 ==
  \E i \in DOMAIN inflight :
    /\ inflight[i].phase = "sent"
    /\ inflight[i].op = "updateProfile"
    /\ \E response \in ResponseData(inflight[i].op, inflight[i].arg) :
         /\ storage' = [storage EXCEPT !.user_data = JSONstringify(response)]
         /\ inflight' = [inflight EXCEPT ![i].phase = "return",
                                         ![i].resp = [user |-> response, token |-> NULL]]
    /\ storeUnchanged

\* login / register / updateProfile: the payload creator returns
return(i) ==
  /\ inflight[i].phase = "return"
  /\ storeDispatch(<<fulfilled(i, IF inflight[i].op = "updateProfile"
                                  THEN inflight[i].resp.user
                                  ELSE inflight[i].resp)>>)
  /\ inflight' = retire(i)
  /\ UNCHANGED storage

Return ==
  \E i \in DOMAIN inflight : return(i)

\* lists of the booking container grow only up to MaxBookings
fits(op, payload) ==
  /\ op = "createBooking" => Len(booking.bookings) < MaxBookings
  /\ op = "createBooking" /\ payload.status = "active" =>
       Len(booking.activeBookings) < MaxBookings
  /\ op = "updateBookingStatus" /\ payload.status = "active" =>
       Len(booking.activeBookings) < MaxBookings

\* every other endpoint: 200 and the payload creator returns
respond200(i, response) ==
  /\ inflight[i].phase = "sent"
  /\ inflight[i].op \notin {"loginUser", "registerUser", "updateProfile"}
  /\ response \in ResponseData(inflight[i].op, inflight[i].arg)
  /\ fits(inflight[i].op, response)
  /\ storeDispatch(<<fulfilled(i, response)>>)
  /\ inflight' = retire(i)
  /\ UNCHANGED storage

Respond200 ==
  \E i \in DOMAIN inflight :
    \E response \in ResponseData(inflight[i].op, inflight[i].arg) :
      respond200(i, response)

\* response interceptor, status 401: removeItem('auth_token') and await
Respond401 ==
  \E i \in DOMAIN inflight :
    /\ inflight[i].phase = "sent"
    /\ storage' = [storage EXCEPT !.auth_token = NULL]
    /\ inflight' = [inflight EXCEPT ![i].phase = "removeUserData"]
    /\ storeUnchanged

\* response interceptor, status 401: removeItem('user_data') and await
RemoveUserData ==
  \E i \in DOMAIN inflight :
    /\ inflight[i].phase = "removeUserData"
    /\ storage' = [storage EXCEPT !.user_data = NULL]
    /\ inflight' = [inflight EXCEPT ![i].phase = "reject"]
    /\ storeUnchanged

\* response interceptor, status 401: Promise.reject(error), caught by the thunk
reject401(i, error) ==
  /\ inflight[i].phase = "reject"
  /\ error \in ApiError
  /\ error.status = "401"
  /\ storeDispatch(<<rejected(i, rejectValue(inflight[i].op, error))>>)
  /\ inflight' = splice(inflight, i)
  /\ UNCHANGED storage

Reject401 ==
  \E i \in DOMAIN inflight : \E error \in ApiError : reject401(i, error)

\* any other failure: the interceptor rejects at once, the thunk catches
respondError(i, error) ==
  /\ inflight[i].phase = "sent"
  /\ error \in ApiError
  /\ error.status # "401"
  /\ storeDispatch(<<rejected(i, rejectValue(inflight[i].op, error))>>)
  /\ inflight' = splice(inflight, i)
  /\ UNCHANGED storage

RespondError ==
  \E i \in DOMAIN inflight : \E error \in ApiError : respondError(i, error)

(***************************************************************************)
(* Dispatches of the screens.                                              *)
(***************************************************************************)
\* coordinates are fixed-point numbers in units of 0.00001 degree
Location(latitude, longitude) ==
  [present |-> TRUE, latitude |-> latitude, longitude |-> longitude]

\* userLocation is undefined
NoLocation == [present |-> FALSE, latitude |-> 0, longitude |-> 0]

\* DEBUG_COORDINATES[zipCode]; NoLocation stands for undefined
DEBUG_COORDINATES(zipCode) ==
  CASE zipCode = "30068" -> Location(3394270, -8444070)
    [] zipCode = "30308" -> Location(3377290, -8436270)
    [] zipCode = "30307" -> Location(3376320, -8433300)
    [] zipCode = "30339" -> Location(3387810, -8446800)
    [] zipCode = "73000" -> Location(3522260, -9743950)
    [] OTHER -> NoLocation

\* LocationService.getDebugLocation; NoLocation stands for null
getDebugLocation(isDev, zipCode) ==
  IF isDev /\ DEBUG_COORDINATES(zipCode).present
  THEN DEBUG_COORDINATES(zipCode)
  ELSE NoLocation

\* debugHelper.getDebugCoordinates; NoLocation stands for null
getDebugCoordinates(zipCode) ==
  IF DEBUG_COORDINATES(zipCode).present THEN DEBUG_COORDINATES(zipCode) ELSE NoLocation

\* getNearbyBusinesses: the query of GET /businesses/nearby, in fixed point
nearbyParams(location) ==
  "latitude=" \o ToString(location.latitude)
    \o "&longitude=" \o ToString(location.longitude)

\* a trimmed, non-empty content of the search field
SearchQuery == {"30308", "30309", "303", "Lockers"}

\* /^\d{5}$/.test(query), for the queries above
zipRegex(query) == query \in {"30308", "30309"}

\* SearchScreen.handleSearch: clearBusinesses, clearError, and the search
\* that the kind of the query calls for
handleSearch(searchQuery, isZipCodeSearch) ==
  LET clear == <<Action("clearBusinesses", "sync", NULL),
                 Action("business/clearError", "sync", NULL)>>
      debugCoords == getDebugCoordinates(searchQuery)
      dispatch(op, arg) ==
        /\ room
        /\ storeDispatch(Append(clear, Action(op, "pending", NULL)))
        /\ inflight' = Append(inflight,
             Thunk(op, "sent", Authorization(storage.auth_token), arg, NoResponse))
  IN /\ signedIn
     /\ IF isZipCodeSearch /\ zipRegex(searchQuery)
        THEN IF debugCoords.present
             THEN dispatch("fetchNearbyBusinesses", nearbyParams(debugCoords))
             ELSE dispatch("searchBusinesses", "zipCode")
        ELSE IF isZipCodeSearch
        THEN /\ storeDispatch(clear)
             /\ UNCHANGED inflight
        ELSE dispatch("searchBusinesses", "name")
     /\ UNCHANGED storage

HandleSearch ==
  \E searchQuery \in SearchQuery, isZipCodeSearch \in BOOLEAN :
    handleSearch(searchQuery, isZipCodeSearch)

\* SearchScreen.clearSearch and the Search tab: clearBusinesses, clearError
ClearSearch ==
  /\ signedIn
  /\ storeDispatch(<<Action("clearBusinesses", "sync", NULL),
                     Action("business/clearError", "sync", NULL)>>)
  /\ UNCHANGED <<storage, inflight>>

\* SearchScreen, Near Me tab and retry button: clearError
ClearError ==
  /\ signedIn
  /\ storeDispatch(<<Action("business/clearError", "sync", NULL)>>)
  /\ UNCHANGED <<storage, inflight>>

\* SearchScreen.handleFindNearby, HomeScreen.loadInitialData
DispatchFetchNearbyBusinesses ==
  /\ signedIn
  /\ dispatchApi("fetchNearbyBusinesses", NULL)

\* BusinessDetailsScreen, on mount
DispatchFetchBusinessById ==
  /\ signedIn
  /\ dispatchApi("fetchBusinessById", NULL)

\* BusinessDetailsScreen.handleBooking; the Book button is disabled while
\* state.booking.isLoading
DispatchCreateBooking ==
  /\ signedIn
  /\ ~booking.isLoading
  /\ dispatchApi("createBooking", NULL)

DispatchFetchUserBookings ==
  /\ signedIn
  /\ dispatchApi("fetchUserBookings", NULL)

DispatchFetchActiveBookings ==
  /\ signedIn
  /\ dispatchApi("fetchActiveBookings", NULL)

DispatchUpdateBookingStatus ==
  /\ signedIn
  /\ dispatchApi("updateBookingStatus", NULL)

DispatchCancelBooking ==
  /\ signedIn
  /\ dispatchApi("cancelBooking", NULL)

DispatchCheckInToLocker ==
  /\ signedIn
  /\ dispatchApi("checkInToLocker", NULL)

DispatchCheckOutFromLocker ==
  /\ signedIn
  /\ dispatchApi("checkOutFromLocker", NULL)

(***************************************************************************)
(* BusinessMap.  Coordinates and deltas are fixed-point numbers in units   *)
(* of 0.00001 degree; the inputs are multiples of 0.0001 degree, so that   *)
(* halving a sum and the padding by 2.5 are exact.                         *)
(***************************************************************************)
MaxTimers == 2

\* LocationService.getCurrentLocation: the fallback of a development build
fallbackLocation == Location(3374900, -8438800)

\* positions the device can report
Position == {DEBUG_COORDINATES("30068"), DEBUG_COORDINATES("30308"), fallbackLocation}

\* a business as the map reads it: location.coordinates is [longitude, latitude]
MapBusiness ==
  {[_id |-> "b1", location |-> [coordinates |-> <<-8436270, 3377290>>]],
   [_id |-> "b2", location |-> [coordinates |-> <<-8438800, 3374900>>]],
   [_id |-> "b3", location |-> [coordinates |-> <<-8444070, 3394270>>]]}

MapBusinessLists ==
  {<<>>} \cup {<<b>> : b \in MapBusiness}
         \cup {<<a, b>> : a, b \in {m \in MapBusiness : m._id # "b2"}}

Region(latitude, longitude, latitudeDelta, longitudeDelta) ==
  [latitude |-> latitude, longitude |-> longitude,
   latitudeDelta |-> latitudeDelta, longitudeDelta |-> longitudeDelta]

atlantaRegion == Region(3374900, -8438800, 9220, 4210)

\* animateToRegion has not been called
NoRegion == Region(0, 0, 0, 0)

\* Math.abs
MathAbs(x) == IF x < 0 THEN 0 - x ELSE x

\* variant: the floor is taken as a ceiling
MathMax_min(x, y) == IF x >= y THEN y ELSE x

\* Math.max
MathMax(x, y) == IF x >= y THEN x ELSE y

\* paddingFactor = 2.5, in tenths
paddingFactor == 25
\* minDelta = 0.05
minDelta == 5000

\* variant: the coordinates are read latitude first
calculateOptimalRegion_swapped(userLoc, nearestBusiness) ==
  LET businessLat == nearestBusiness.location.coordinates[1]
      businessLng == nearestBusiness.location.coordinates[2]
      latDiff == MathAbs(userLoc.latitude - businessLat)
      lngDiff == MathAbs(userLoc.longitude - businessLng)
  IN Region((userLoc.latitude + businessLat) \div 2,
            (userLoc.longitude + businessLng) \div 2,
            MathMax((latDiff * paddingFactor) \div 10, minDelta),
            MathMax((lngDiff * paddingFactor) \div 10, minDelta))

\* coordinates[1] and coordinates[0] of the code are the second and the
\* first element here
calculateOptimalRegion(userLoc, nearestBusiness) ==
  LET businessLat == nearestBusiness.location.coordinates[2]
      businessLng == nearestBusiness.location.coordinates[1]
      centerLat == (userLoc.latitude + businessLat) \div 2
      centerLng == (userLoc.longitude + businessLng) \div 2
      latDiff == MathAbs(userLoc.latitude - businessLat)
      lngDiff == MathAbs(userLoc.longitude - businessLng)
      latitudeDelta == MathMax((latDiff * paddingFactor) \div 10, minDelta)
      longitudeDelta == MathMax((lngDiff * paddingFactor) \div 10, minDelta)
  IN Region(centerLat, centerLng, latitudeDelta, longitudeDelta)

\* variant: centerOnNearestBusiness prefers the first business to the user
rule_hinted(userLocation, businesses, centerOnNearestBusiness, showUserAndNearestBusiness) ==
  IF centerOnNearestBusiness /\ Len(businesses) > 0 /\ ~showUserAndNearestBusiness THEN 3
  ELSE IF userLocation.present /\ Len(businesses) > 0 THEN 1
  ELSE IF userLocation.present THEN 2
  ELSE IF Len(businesses) > 0 THEN 3
  ELSE 4

\* the branch that useEffect takes
rule(userLocation, businesses, centerOnNearestBusiness, showUserAndNearestBusiness) ==
  IF userLocation.present /\ Len(businesses) > 0 THEN 1
  ELSE IF userLocation.present THEN 2
  ELSE IF Len(businesses) > 0 THEN 3
  ELSE 4

\* variant: the user alone is shown at the closest zoom
useEffect_zoomed(userLocation, businesses, centerOnNearestBusiness, showUserAndNearestBusiness) ==
  LET r == rule(userLocation, businesses,
                centerOnNearestBusiness, showUserAndNearestBusiness)
  IN CASE r = 1 ->
            [region |-> calculateOptimalRegion(userLocation, businesses[1]),
             rule |-> 1, animate |-> TRUE]
       [] r = 2 ->
            [region |-> Region(userLocation.latitude, userLocation.longitude,
                               minDelta, minDelta),
             rule |-> 2, animate |-> FALSE]
       [] r = 3 ->
            [region |-> Region(businesses[1].location.coordinates[2],
                               businesses[1].location.coordinates[1], 9220, 4210),
             rule |-> 3, animate |-> FALSE]
       [] OTHER -> [region |-> atlantaRegion, rule |-> 4, animate |-> FALSE]

\* the body of useEffect: the region it sets, the branch taken, and whether
\* it schedules animateToRegion
useEffect(userLocation, businesses, centerOnNearestBusiness, showUserAndNearestBusiness) ==
  LET r == rule(userLocation, businesses,
                centerOnNearestBusiness, showUserAndNearestBusiness)
  IN CASE r = 1 ->
            [region |-> calculateOptimalRegion(userLocation, businesses[1]),
             rule |-> 1, animate |-> TRUE]
       [] r = 2 ->
            [region |-> Region(userLocation.latitude, userLocation.longitude, 9220, 4210),
             rule |-> 2, animate |-> FALSE]
       [] r = 3 ->
            [region |-> Region(businesses[1].location.coordinates[2],
                               businesses[1].location.coordinates[1], 9220, 4210),
             rule |-> 3, animate |-> FALSE]
       [] OTHER -> [region |-> atlantaRegion, rule |-> 4, animate |-> FALSE]

\* variant: the region of the effect is not applied
render_default(state, userLocation, businesses, centerOnNearestBusiness, showUserAndNearestBusiness) ==
  LET effect == useEffect(userLocation, businesses,
                          centerOnNearestBusiness, showUserAndNearestBusiness)
  IN [userLocation |-> userLocation,
      businesses |-> businesses,
      centerOnNearestBusiness |-> centerOnNearestBusiness,
      showUserAndNearestBusiness |-> showUserAndNearestBusiness,
      region |-> atlantaRegion,
      rule |-> effect.rule,
      timers |-> IF effect.animate THEN Append(state.timers, effect.region)
                 ELSE state.timers,
      animated |-> state.animated]

\* the component rendered with these props: the effect has run, setRegion
\* has been applied and the timer of the animation is pending
render(state, userLocation, businesses, centerOnNearestBusiness, showUserAndNearestBusiness) ==
  LET effect == useEffect(userLocation, businesses,
                          centerOnNearestBusiness, showUserAndNearestBusiness)
  IN [userLocation |-> userLocation,
      businesses |-> businesses,
      centerOnNearestBusiness |-> centerOnNearestBusiness,
      showUserAndNearestBusiness |-> showUserAndNearestBusiness,
      region |-> effect.region,
      rule |-> effect.rule,
      timers |-> IF effect.animate THEN Append(state.timers, effect.region)
                 ELSE state.timers,
      animated |-> state.animated]

\* the component on mount: useState(atlantaRegion), no location, no business
mapInitialState ==
  render([timers |-> <<>>, animated |-> NoRegion], NoLocation, <<>>, FALSE, FALSE)

(***************************************************************************)
(* LocationService.getCurrentLocation                                      *)
(***************************************************************************)
\* calculateDistance has not been called
notMeasured == [called |-> FALSE, lat1 |-> 0, lon1 |-> 0, lat2 |-> 0, lon2 |-> 0,
                distance |-> 0]

\* coordinates in whole degrees at which the sines and cosines of
\* calculateDistance have rational squares
GridLatitude == {-60, 0, 60}
GridLongitude == {-90, 0, 90, 180}

\* 2 * Math.cos(deg2rad(lat)) on the grid
cosTimes2(lat) == IF lat = 0 THEN 2 ELSE 1

\* 4 * Math.sin(deg2rad(d) / 2) * Math.sin(deg2rad(d) / 2) for the
\* differences of grid coordinates
sinHalfSquaredTimes4(d) ==
  CASE MathAbs(d) = 0 -> 0
    [] MathAbs(d) = 60 -> 1
    [] MathAbs(d) = 90 -> 2
    [] MathAbs(d) = 120 -> 3
    [] MathAbs(d) = 180 -> 4
    [] MathAbs(d) = 270 -> 2

\* R * 2 * Math.atan2(Math.sqrt(a), Math.sqrt(1 - a)) in whole kilometres,
\* R = 6371, for a = 0/16, 1/16, ..., 16/16
kilometres ==
  <<0, 3219, 4604, 5706, 6671, 7558, 8397, 9209, 10007, 10806, 11617, 12456,
    13343, 14308, 15410, 16795, 20015>>

\* variant: the cosine of the first latitude is taken twice
calculateDistance_oneSided(lat1, lon1, lat2, lon2) ==
  LET dLat == lat2 - lat1
      dLon == lon2 - lon1
      a16 == 4 * sinHalfSquaredTimes4(dLat)
               + cosTimes2(lat1) * cosTimes2(lat1) * sinHalfSquaredTimes4(dLon)
  IN kilometres[a16 + 1]

\* LocationService.calculateDistance; a16 is 16 * a
calculateDistance(lat1, lon1, lat2, lon2) ==
  LET dLat == lat2 - lat1
      dLon == lon2 - lon1
      a16 == 4 * sinHalfSquaredTimes4(dLat)
               + cosTimes2(lat1) * cosTimes2(lat2) * sinHalfSquaredTimes4(dLon)
  IN kilometres[a16 + 1]

\* error.code of Geolocation: 1, 2, 3, and 4 for any other code
PositionErrorCode == 1..4

getLocationErrorMessage(code) ==
  CASE code = 1 -> "Location access denied. Please enable location permissions in settings."
    [] code = 2 -> "Unable to determine location. Please check your GPS/network connection."
    [] code = 3 -> "Location request timed out. Please try again."
    [] OTHER -> "An unknown location error occurred."

\* variant: a development build rejects like a production build
getCurrentLocation_error_strict(isDev, code) ==
  [phase |-> "rejected", value |-> NoLocation, code |-> code,
   message |-> getLocationErrorMessage(code), failed |-> TRUE,
   measured |-> notMeasured]

\* the error callback of Geolocation.getCurrentPosition
getCurrentLocation_error(isDev, code) ==
  IF isDev
  THEN [phase |-> "resolved", value |-> fallbackLocation, code |-> 0,
        message |-> NULL, failed |-> TRUE, measured |-> notMeasured]
  ELSE [phase |-> "rejected", value |-> NoLocation, code |-> code,
        message |-> getLocationErrorMessage(code), failed |-> TRUE,
   measured |-> notMeasured]

\* the success callback of Geolocation.getCurrentPosition
getCurrentLocation_success(isDev, position) ==
  [phase |-> "resolved", value |-> position, code |-> 0,
   message |-> NULL, failed |-> FALSE, measured |-> notMeasured]

geoInitialState ==
  [phase |-> "idle", value |-> NoLocation, code |-> 0, message |-> NULL,
   failed |-> FALSE, measured |-> notMeasured]

(***************************************************************************)
(* The booking screens.  Times are in milliseconds.                        *)
(***************************************************************************)
\* 1000 * 60 * 60
MsPerHour == 3600000
MaxNow == 2

\* the status of a booking as the types declare it
BookingStatusType ==
  {"pending", "confirmed", "active", "completed", "cancelled", "expired"}

\* start times around one hour after the first instant, and one in the past
StartTime == {0, MsPerHour, MsPerHour + 2}

\* a booking as a screen shows it
ShownBooking == [_id : {"k1"}, status : BookingStatusType, startTime : StartTime]

\* BookingsScreen.canCancelBooking: hoursUntilStart >= 1, where
\* hoursUntilStart is timeDifference / MsPerHour
canCancelBooking(shown, now) ==
  IF shown.status = "completed" \/ shown.status = "cancelled"
  THEN FALSE
  ELSE LET timeDifference == shown.startTime - now
       IN timeDifference >= 1 * MsPerHour

\* BookingDetailsScreen: canCancel
canCancel(shown) == shown.status = "confirmed" \/ shown.status = "active"

\* maximum rental duration, in hours
maxDurationHours == 10

\* times of day that the pickers of BusinessDetailsScreen can be set to, in
\* milliseconds after the midnight of the selected date
FormTime == {8 * MsPerHour, 10 * MsPerHour, 19 * MsPerHour}

\* numbers of the lockers of the business
Lockers == 1..2

\* BusinessDetailsScreen on mount: the start at the next full hour, the end
\* two hours later, no locker listed, none selected (0 stands for null)
formInitialState ==
  [startTime |-> 8 * MsPerHour, endTime |-> 10 * MsPerHour,
   availableLockers |-> {}, selectedLocker |-> 0]

uiInitialState ==
  [now |-> 0, screen |-> "none",
   shown |-> [_id |-> NULL, status |-> NULL, startTime |-> 0],
   button |-> FALSE, alert |-> FALSE, cancelling |-> FALSE,
   form |-> formInitialState]

\* the build flag is set in the specifications' initial conditions
componentsInitial ==
  /\ map = mapInitialState
  /\ geo = geoInitialState
  /\ ui = uiInitialState

appUnchanged ==
  UNCHANGED <<storage, auth, business, booking, displayBusinesses, inflight, lastAction>>

\* time passes
Tick ==
  /\ ui.now < MaxNow
  /\ ui' = [ui EXCEPT !.now = @ + 1]
  /\ UNCHANGED <<dev, map, geo>>
  /\ appUnchanged

\* BookingsScreen renders the card of a booking
RenderBookingCard ==
  /\ signedIn
  /\ ~ui.alert
  /\ ~ui.cancelling
  /\ \E shown \in ShownBooking :
       ui' = [ui EXCEPT !.screen = "Bookings", !.shown = shown,
                        !.button = canCancelBooking(shown, ui.now)]
  /\ UNCHANGED <<dev, map, geo>>
  /\ appUnchanged

\* BookingDetailsScreen renders a booking
RenderBookingDetails ==
  /\ signedIn
  /\ ~ui.alert
  /\ ~ui.cancelling
  /\ \E shown \in ShownBooking :
       ui' = [ui EXCEPT !.screen = "BookingDetails", !.shown = shown,
                        !.button = canCancel(shown)]
  /\ UNCHANGED <<dev, map, geo>>
  /\ appUnchanged

\* handleCancelBooking of either screen: the button opens the confirmation
HandleCancelBooking ==
  /\ ui.button
  /\ ~ui.alert
  /\ ~ui.cancelling
  /\ ui' = [ui EXCEPT !.alert = TRUE]
  /\ UNCHANGED <<dev, map, geo>>
  /\ appUnchanged

\* 'No' / 'Keep Booking'
AlertKeep ==
  /\ ui.alert
  /\ ui' = [ui EXCEPT !.alert = FALSE]
  /\ UNCHANGED <<dev, map, geo>>
  /\ appUnchanged

\* 'Yes, Cancel' / 'Cancel Booking': onPress up to its await
AlertCancel ==
  /\ ui.alert
  /\ room
  /\ storeReduce(<<Action("cancelBooking", "pending", NULL)>>)
  /\ inflight' = Append(inflight,
       Thunk("cancelBooking", "sent", Authorization(storage.auth_token),
             ui.shown._id, NoResponse))
  /\ ui' = [ui EXCEPT !.alert = FALSE,
                      !.cancelling = (ui.screen = "BookingDetails")]
  /\ UNCHANGED <<storage, dev, map, geo>>

\* BookingDetailsScreen: onPress after its await, when cancelBooking was
\* fulfilled: fetchUserBookings is dispatched and the screen is left
CancelFulfilled ==
  /\ ui.cancelling
  /\ lastAction.thunk = "cancelBooking"
  /\ lastAction.phase = "fulfilled"
  /\ room
  /\ storeReduce(<<Action("fetchUserBookings", "pending", NULL)>>)
  /\ inflight' = Append(inflight,
       Thunk("fetchUserBookings", "sent", Authorization(storage.auth_token),
             NULL, NoResponse))
  /\ ui' = [ui EXCEPT !.cancelling = FALSE, !.screen = "none", !.button = FALSE]
  /\ UNCHANGED <<storage, dev, map, geo>>

\* BookingDetailsScreen: onPress after its await, when cancelBooking was
\* rejected
CancelRejected ==
  /\ ui.cancelling
  /\ lastAction.thunk = "cancelBooking"
  /\ lastAction.phase = "rejected"
  /\ ui' = [ui EXCEPT !.cancelling = FALSE]
  /\ UNCHANGED <<dev, map, geo>>
  /\ appUnchanged

(***************************************************************************)
(* The booking form of BusinessDetailsScreen.                              *)
(***************************************************************************)
\* the start time picker
SetStartTime ==
  /\ signedIn
  /\ \E time \in FormTime :
       /\ time # ui.form.startTime
       /\ ui' = [ui EXCEPT !.form.startTime = time]
  /\ UNCHANGED <<dev, map, geo>>
  /\ appUnchanged

\* the end time picker
SetEndTime ==
  /\ signedIn
  /\ \E time \in FormTime :
       /\ time # ui.form.endTime
       /\ ui' = [ui EXCEPT !.form.endTime = time]
  /\ UNCHANGED <<dev, map, geo>>
  /\ appUnchanged

\* the checks of checkAvailability
validTimes(bookingStartTime, bookingEndTime, now) ==
  /\ ~(bookingEndTime <= bookingStartTime)
  /\ ~(bookingEndTime - bookingStartTime > maxDurationHours * MsPerHour)
  /\ ~(bookingStartTime < now)

\* checkAvailability: after the checks, a random choice of lockers is
\* listed and the selection is reset
CheckAvailability ==
  /\ signedIn
  /\ business.selectedBusiness # NULL
  /\ validTimes(ui.form.startTime, ui.form.endTime, ui.now)
  /\ \E available \in SUBSET Lockers :
       ui' = [ui EXCEPT !.form.availableLockers = available,
                        !.form.selectedLocker = 0]
  /\ UNCHANGED <<dev, map, geo>>
  /\ appUnchanged

\* a locker of the list is pressed
SelectLocker ==
  /\ signedIn
  /\ \E lockerNumber \in ui.form.availableLockers :
       /\ lockerNumber # ui.form.selectedLocker
       /\ ui' = [ui EXCEPT !.form.selectedLocker = lockerNumber]
  /\ UNCHANGED <<dev, map, geo>>
  /\ appUnchanged

\* CreateBookingRequest as the request carries it
createBookingRequest(bookingStartTime, durationHours) ==
  "startTime=" \o ToString(bookingStartTime)
    \o "&durationHours=" \o ToString(durationHours)

\* handleBookLocker: the Book button is shown once a locker is selected and
\* is disabled while state.booking.isLoading
HandleBookLocker ==
  /\ signedIn
  /\ ~booking.isLoading
  /\ business.selectedBusiness # NULL
  /\ ui.form.selectedLocker # 0
  /\ room
  /\ LET duration == (ui.form.endTime - ui.form.startTime) \div MsPerHour
     IN /\ storeReduce(<<Action("createBooking", "pending", NULL)>>)
        /\ inflight' = Append(inflight,
             Thunk("createBooking", "sent", Authorization(storage.auth_token),
                   createBookingRequest(ui.form.startTime, duration), NoResponse))
  /\ UNCHANGED <<storage, dev, map, geo, ui>>

(***************************************************************************)
(* The map and the location service at work.                               *)
(***************************************************************************)
\* rule 1 starts a timer; at most MaxTimers of them are pending
timerRoom(userLocation, businesses) ==
  (userLocation.present /\ Len(businesses) > 0) => Len(map.timers) < MaxTimers

\* the parent renders the map with another list of businesses
SetBusinesses ==
  /\ \E businesses \in MapBusinessLists :
       /\ businesses # map.businesses
       /\ timerRoom(map.userLocation, businesses)
       /\ map' = render(map, map.userLocation, businesses,
                        map.centerOnNearestBusiness, map.showUserAndNearestBusiness)
  /\ UNCHANGED <<dev, geo, ui>>
  /\ appUnchanged

\* the parent renders the map with other display hints
SetHints ==
  /\ \E centerOnNearestBusiness, showUserAndNearestBusiness \in BOOLEAN :
       /\ <<centerOnNearestBusiness, showUserAndNearestBusiness>>
            # <<map.centerOnNearestBusiness, map.showUserAndNearestBusiness>>
       /\ timerRoom(map.userLocation, map.businesses)
       /\ map' = render(map, map.userLocation, map.businesses,
                        centerOnNearestBusiness, showUserAndNearestBusiness)
  /\ UNCHANGED <<dev, geo, ui>>
  /\ appUnchanged

\* the timer of the effect fires: mapRef.current.animateToRegion
AnimateToRegion ==
  /\ map.timers # <<>>
  /\ map' = [map EXCEPT !.timers = Tail(@), !.animated = Head(map.timers)]
  /\ UNCHANGED <<dev, geo, ui>>
  /\ appUnchanged

\* LocationService.calculateDistance is called
CalculateDistance ==
  /\ \E lat1, lat2 \in GridLatitude, lon1, lon2 \in GridLongitude :
       geo' = [geo EXCEPT !.measured =
                 [called |-> TRUE, lat1 |-> lat1, lon1 |-> lon1,
                  lat2 |-> lat2, lon2 |-> lon2,
                  distance |-> calculateDistance(lat1, lon1, lat2, lon2)]]
  /\ UNCHANGED <<dev, map, ui>>
  /\ appUnchanged

\* LocationService.getCurrentLocation is called
GetCurrentLocation ==
  /\ geo.phase = "idle"
  /\ geo' = [geoInitialState EXCEPT !.phase = "pending"]
  /\ UNCHANGED <<dev, map, ui>>
  /\ appUnchanged

\* the device reports a position
PositionSuccess ==
  /\ geo.phase = "pending"
  /\ \E position \in Position : geo' = getCurrentLocation_success(dev, position)
  /\ UNCHANGED <<dev, map, ui>>
  /\ appUnchanged

\* the device reports an error, or the request times out
PositionError ==
  /\ geo.phase = "pending"
  /\ \E code \in PositionErrorCode : geo' = getCurrentLocation_error(dev, code)
  /\ UNCHANGED <<dev, map, ui>>
  /\ appUnchanged

\* the caller's await resolves: setLocation(userLocation), and the map is
\* rendered with it
SetLocation ==
  /\ geo.phase = "resolved"
  /\ timerRoom(geo.value, map.businesses)
  /\ map' = render(map, geo.value, map.businesses,
                   map.centerOnNearestBusiness, map.showUserAndNearestBusiness)
  /\ geo' = [geo EXCEPT !.phase = "idle"]
  /\ UNCHANGED <<dev, ui>>
  /\ appUnchanged

\* the caller's await rejects: catch
CatchLocationError ==
  /\ geo.phase = "rejected"
  /\ geo' = [geo EXCEPT !.phase = "idle"]
  /\ UNCHANGED <<dev, map, ui>>
  /\ appUnchanged

(***************************************************************************)
(* Specifications.                                                         *)
(***************************************************************************)
initAction == typeOf(Action("@@INIT", "sync", NULL))

\* a fresh start of the application; persisted storage may hold the
\* session of an earlier run
Init ==
  /\ storage \in {[auth_token |-> NULL, user_data |-> NULL],
                  [auth_token |-> "t1", user_data |-> JSONstringify("u1")]}
  /\ auth = authInitialState
  /\ business = businessInitialState
  /\ booking = bookingInitialState
  /\ displayBusinesses = <<>>
  /\ inflight = <<>>
  /\ lastAction = initAction
  /\ dev = FALSE
  /\ componentsInitial

\* the state once the stored session of u1 has been loaded
InitSignedIn ==
  /\ storage = [auth_token |-> "t1", user_data |-> JSONstringify("u1")]
  /\ auth = loadStoredAuth_fulfilled(loadStoredAuth_pending(authInitialState),
                                     [user |-> "u1", token |-> "t1"])
  /\ business = businessInitialState
  /\ booking = bookingInitialState
  /\ displayBusinesses = <<>>
  /\ inflight = <<>>
  /\ lastAction = initAction
  /\ dev = FALSE
  /\ componentsInitial

\* status 401 and its handling by the response interceptor
Api401 ==
  \/ Respond401
  \/ RemoveUserData
  \/ Reject401

Session ==
  \/ DispatchLoginUser
  \/ DispatchRegisterUser
  \/ DispatchUpdateProfile
  \/ DispatchLoadStoredAuth
  \/ LoadGetUserData
  \/ DispatchLogoutUser
  \/ LogoutRemoveUserData
  \/ LogoutReturn
  \/ AuthRespond200
  \/ SetUserData
  \/ ProfileRespond200
  \/ Return

Next ==
  \/ Session
  \/ Api401
  \/ RespondError

Spec == Init /\ [][Next]_vars

\* every request is answered or times out (axios timeout: 10000)
Answer ==
  \/ AuthRespond200
  \/ ProfileRespond200
  \/ Respond401
  \/ RespondError

\* requests are answered, and every awaited storage call resolves and its
\* continuation runs
FairSpec ==
  /\ Spec
  /\ WF_vars(Answer)
  /\ WF_vars(LoadGetUserData)
  /\ WF_vars(LogoutRemoveUserData)
  /\ WF_vars(LogoutReturn)
  /\ WF_vars(SetUserData)
  /\ WF_vars(Return)
  /\ WF_vars(RemoveUserData)
  /\ WF_vars(Reject401)

\* the same state in a development or in a production build
InitBuild ==
  /\ storage = [auth_token |-> "t1", user_data |-> JSONstringify("u1")]
  /\ auth = loadStoredAuth_fulfilled(loadStoredAuth_pending(authInitialState),
                                     [user |-> "u1", token |-> "t1"])
  /\ business = businessInitialState
  /\ booking = bookingInitialState
  /\ displayBusinesses = <<>>
  /\ inflight = <<>>
  /\ lastAction = initAction
  /\ dev \in BOOLEAN
  /\ componentsInitial

NextBusiness ==
  \/ HandleSearch
  \/ ClearSearch
  \/ ClearError
  \/ DispatchFetchNearbyBusinesses
  \/ DispatchFetchBusinessById
  \/ Respond200
  \/ RespondError

SpecBusiness == InitBuild /\ [][NextBusiness]_vars

NextBooking ==
  \/ DispatchCreateBooking
  \/ DispatchFetchUserBookings
  \/ DispatchFetchActiveBookings
  \/ DispatchUpdateBookingStatus
  \/ DispatchCancelBooking
  \/ Respond200
  \/ RespondError

SpecBooking == InitSignedIn /\ [][NextBooking]_vars

\* requests of a signed-in user and every answer to them, status 401 included
NextRequest ==
  \/ DispatchFetchBusinessById
  \/ DispatchFetchUserBookings
  \/ Respond200
  \/ Respond401
  \/ RemoveUserData
  \/ Reject401
  \/ RespondError

SpecRequest == InitSignedIn /\ [][NextRequest]_vars

NextForm ==
  \/ DispatchFetchBusinessById
  \/ SetStartTime
  \/ SetEndTime
  \/ CheckAvailability
  \/ SelectLocker
  \/ HandleBookLocker
  \/ Respond200

SpecForm == InitSignedIn /\ [][NextForm]_vars

NextDistance == CalculateDistance

SpecDistance == InitSignedIn /\ [][NextDistance]_vars

NextMap ==
  \/ SetBusinesses
  \/ SetHints
  \/ AnimateToRegion
  \/ GetCurrentLocation
  \/ PositionSuccess
  \/ PositionError
  \/ SetLocation
  \/ CatchLocationError

SpecMap == InitBuild /\ [][NextMap]_vars

NextCancel ==
  \/ Tick
  \/ RenderBookingCard
  \/ RenderBookingDetails
  \/ HandleCancelBooking
  \/ AlertKeep
  \/ AlertCancel
  \/ CancelFulfilled
  \/ CancelRejected
  \/ Respond200
  \/ RespondError

SpecCancel == InitSignedIn /\ [][NextCancel]_vars

(***************************************************************************)
(* Properties.                                                             *)
(***************************************************************************)
AuthThunks == {"loginUser", "registerUser", "loadStoredAuth", "logoutUser", "updateProfile"}
BusinessThunks == {"searchBusinesses", "fetchNearbyBusinesses", "fetchBusinessById"}
BookingThunks ==
  {"createBooking", "fetchUserBookings", "fetchActiveBookings", "updateBookingStatus",
   "cancelBooking", "checkInToLocker", "checkOutFromLocker"}

Member(list, x) == \E k \in DOMAIN list : list[k] = x

\* the least index of an entry with this id, 0 when there is none
FirstWithId(list, id) ==
  IF \E k \in DOMAIN list : list[k]._id = id
  THEN CHOOSE k \in DOMAIN list :
         /\ list[k]._id = id
         /\ \A j \in 1..(k - 1) : list[j]._id # id
  ELSE 0

\* the list without its entry at index k
Without(list, k) ==
  [j \in 1..(Len(list) - 1) |-> IF j < k THEN list[j] ELSE list[j + 1]]

\* C1: when a request is answered 401, then at the step that surfaces the
\* error to the caller neither auth_token nor user_data is in storage.
C1_SessionClearedOn401 ==
  [][\A i \in DOMAIN inflight :
       (\E error \in ApiError : reject401(i, error)) =>
         /\ storage'.auth_token = NULL
         /\ storage'.user_data = NULL]_vars

\* a request that carried the token of the signed-in user was answered 401
\* and the handler has done both removals
C2_Received401 ==
  /\ signedIn
  /\ \E i \in DOMAIN inflight :
       /\ inflight[i].phase = "reject"
       /\ inflight[i].hdr # NULL

\* C2: once a 401 has been received and handled while a user is signed in,
\* the user of the auth container eventually becomes null (the navigator
\* then shows the unauthenticated routes).

C2_RoutesToLoginAfter401 == C2_Received401 ~> (auth.user = NULL)

C4_failed(state, message) ==
  [state EXCEPT !.isLoading = FALSE, !.error = message]

C4_after(op, message) ==
  /\ auth' = IF op \in AuthThunks THEN C4_failed(auth, message) ELSE auth
  /\ business' = IF op \in BusinessThunks THEN C4_failed(business, message) ELSE business
  /\ booking' = IF op \in BookingThunks THEN C4_failed(booking, message) ELSE booking

\* C4: a failed outcome of any thunk sets isLoading to false, stores the
\* error string and leaves every other field of the container unchanged.
C4_FailureKeepsData ==
  [][lastAction'.phase = "rejected" =>
       \A i \in DOMAIN inflight :
         /\ \A error \in ApiError :
              respondError(i, error) \/ reject401(i, error) =>
                C4_after(inflight[i].op, rejectValue(inflight[i].op, error))
         /\ loadGetUserData(i) =>
              C4_after(inflight[i].op, "No stored auth data")]_vars

\* C5: the pending phase of any thunk sets isLoading of its container to
\* true and its error to null.
C5_PendingSetsLoading ==
  lastAction.phase = "pending" =>
    /\ lastAction.thunk \in AuthThunks => auth.isLoading /\ auth.error = NULL
    /\ lastAction.thunk \in BusinessThunks => business.isLoading /\ business.error = NULL
    /\ lastAction.thunk \in BookingThunks => booking.isLoading /\ booking.error = NULL

\* C6: a successful outcome of any thunk sets isLoading of its container to
\* false and its error to null.
C6_SuccessClearsLoadingAndError ==
  lastAction.phase = "fulfilled" =>
    /\ lastAction.thunk \in AuthThunks => ~auth.isLoading /\ auth.error = NULL
    /\ lastAction.thunk \in BusinessThunks => ~business.isLoading /\ business.error = NULL
    /\ lastAction.thunk \in BookingThunks => ~booking.isLoading /\ booking.error = NULL

\* C7: after createBooking is fulfilled with b, bookings is b followed by
\* the previous list, and activeBookings is b followed by the previous list
\* when b.status is "active" and unchanged otherwise.
C7_CreatePrepends ==
  [][lastAction'.thunk = "createBooking" /\ lastAction'.phase = "fulfilled" =>
       \A i \in DOMAIN inflight :
         \A b \in Booking :
           inflight[i].op = "createBooking" /\ respond200(i, b) =>
             /\ booking'.bookings = <<b>> \o booking.bookings
             /\ booking'.activeBookings =
                  IF b.status = "active"
                  THEN <<b>> \o booking.activeBookings
                  ELSE booking.activeBookings]_vars

\* C7 witness: createBooking was fulfilled last with an active booking that
\* now heads both lists, in front of an entry that was there before.
C7_Witness ==
  /\ lastAction.thunk = "createBooking"
  /\ lastAction.phase = "fulfilled"
  /\ Len(booking.bookings) = 2
  /\ booking.bookings[1] # booking.bookings[2]
  /\ booking.bookings[1].status = "active"
  /\ Len(booking.activeBookings) = 2
  /\ booking.activeBookings[1] = booking.bookings[1]

\* the first part of C8: b replaces the first entry with its id, in place
C8_replacedInPlace(b) ==
  LET index == FirstWithId(booking.bookings, b._id)
  IN /\ Len(booking'.bookings) = Len(booking.bookings)
     /\ \A k \in DOMAIN booking.bookings :
          booking'.bookings[k] = IF k = index THEN b ELSE booking.bookings[k]

C8_step(i, b) ==
  /\ inflight[i].op \in {"cancelBooking", "updateBookingStatus"}
  /\ respond200(i, b)
  /\ FirstWithId(booking.bookings, b._id) # 0

\* C8 as stated: after cancelBooking or updateBookingStatus is fulfilled with
\* b whose id is in bookings, b replaces that entry in place and b is a
\* member of activeBookings exactly when b.status is "active".
C8_ActiveIffStatus ==
  [][lastAction'.thunk \in {"cancelBooking", "updateBookingStatus"}
       /\ lastAction'.phase = "fulfilled" =>
       \A i \in DOMAIN inflight :
         \A b \in Booking :
           C8_step(i, b) =>
             /\ C8_replacedInPlace(b)
             /\ Member(booking'.activeBookings, b) <=> b.status = "active"]_vars

\* C8 amended: b replaces the first entry with its id in place; after
\* updateBookingStatus an active b is in activeBookings (appended when no
\* entry had its id, else in place of the first such entry) and for any
\* other status the first entry with its id, if any, is removed; after
\* cancelBooking the first entry with its id, if any, is removed whatever
\* b.status is.
C8_ActiveListFollowsOperation ==
  [][lastAction'.thunk \in {"cancelBooking", "updateBookingStatus"}
       /\ lastAction'.phase = "fulfilled" =>
       \A i \in DOMAIN inflight :
         \A b \in Booking :
           C8_step(i, b) =>
             LET active == booking.activeBookings
                 first == FirstWithId(active, b._id)
                 removed == IF first = 0 THEN active ELSE Without(active, first)
             IN /\ C8_replacedInPlace(b)
                /\ inflight[i].op = "cancelBooking" =>
                     booking'.activeBookings = removed
                /\ inflight[i].op = "updateBookingStatus" /\ b.status # "active" =>
                     booking'.activeBookings = removed
                /\ inflight[i].op = "updateBookingStatus" /\ b.status = "active" =>
                     /\ Member(booking'.activeBookings, b)
                     /\ booking'.activeBookings =
                          IF first = 0 THEN active \o <<b>>
                          ELSE [active EXCEPT ![first] = b]]_vars

\* C8 witness: cancelBooking was fulfilled last with an active booking that
\* is in bookings and is no longer in activeBookings, which is not empty.
C8_Witness ==
  /\ lastAction.thunk = "cancelBooking"
  /\ lastAction.phase = "fulfilled"
  /\ \E k \in DOMAIN booking.bookings :
       /\ booking.bookings[k].status = "active"
       /\ ~Member(booking.activeBookings, booking.bookings[k])
       /\ \A j \in DOMAIN booking.activeBookings :
            booking.activeBookings[j]._id # booking.bookings[k]._id
  /\ booking.activeBookings # <<>>

\* C9: in every reachable state, each phase of searchBusinesses leaves
\* nearbyBusinesses as it is, and each phase of fetchNearbyBusinesses leaves
\* businesses and searchParams as they are.
C9_IndependentLists ==
  /\ \A phase \in {"pending", "fulfilled", "rejected"} :
       \A payload \in (IF phase = "fulfilled"
                       THEN UNION {ResponseData("searchBusinesses", a) : a \in SearchBusinessesRequest}
                       ELSE IF phase = "rejected"
                       THEN {rejectValue("searchBusinesses", e) : e \in ApiError}
                       ELSE {NULL}) :
         businessReducer(business, Action("searchBusinesses", phase, payload)).nearbyBusinesses
           = business.nearbyBusinesses
  /\ \A phase \in {"pending", "fulfilled", "rejected"} :
       \A payload \in (IF phase = "fulfilled"
                       THEN ResponseData("fetchNearbyBusinesses", NULL)
                       ELSE IF phase = "rejected"
                       THEN {rejectValue("fetchNearbyBusinesses", e) : e \in ApiError}
                       ELSE {NULL}) :
         LET next == businessReducer(business, Action("fetchNearbyBusinesses", phase, payload))
         IN /\ next.businesses = business.businesses
            /\ next.searchParams = business.searchParams

\* C9 witness: a search was fulfilled last and both lists are populated.
C9_Witness ==
  /\ lastAction.thunk = "searchBusinesses"
  /\ lastAction.phase = "fulfilled"
  /\ business.businesses # <<>>
  /\ business.nearbyBusinesses # <<>>
  /\ business.nearbyBusinesses # business.businesses

C11_nearest == map.businesses[1]

\* delta is max(2.5 * diff, 0.05)
C11_padded(delta, diff) ==
  IF 5 * diff >= 2 * 5000 THEN 2 * delta = 5 * diff ELSE delta = 5000

\* C11: with a user location and at least one business, the region is
\* centred on the midpoint of the user and the first business (latitude
\* from coordinates[1], longitude from coordinates[0] of the code), and each
\* delta is max(2.5 * |difference|, 0.05); user (33.9427, -84.4407) and
\* business (33.7729, -84.3627) give centre (33.8578, -84.4017) and deltas
\* 0.4245 and 0.195
C11_ViewportRule1 ==
  (map.userLocation.present /\ Len(map.businesses) > 0) =>
    LET userLat == map.userLocation.latitude
        userLng == map.userLocation.longitude
        businessLat == C11_nearest.location.coordinates[2]
        businessLng == C11_nearest.location.coordinates[1]
    IN /\ 2 * map.region.latitude = userLat + businessLat
       /\ 2 * map.region.longitude = userLng + businessLng
       /\ C11_padded(map.region.latitudeDelta, MathAbs(userLat - businessLat))
       /\ C11_padded(map.region.longitudeDelta, MathAbs(userLng - businessLng))
       /\ (userLat = 3394270 /\ userLng = -8444070
             /\ businessLat = 3377290 /\ businessLng = -8436270)
            => map.region = Region(3385780, -8440170, 42450, 19500)

\* the example of C11 is on the map
C11_Witness ==
  /\ map.userLocation = Location(3394270, -8444070)
  /\ Len(map.businesses) > 0
  /\ map.businesses[1].location.coordinates = <<-8436270, 3377290>>
  /\ map.region = Region(3385780, -8440170, 42450, 19500)

C13_UserOnly ==
  (map.userLocation.present /\ map.businesses = <<>>) =>
    /\ map.region.latitude = map.userLocation.latitude
    /\ map.region.longitude = map.userLocation.longitude
    /\ map.region.latitudeDelta = 9220
    /\ map.region.longitudeDelta = 4210

\* the map shows a user in Marietta and no business
C13_Witness ==
  /\ map.userLocation = Location(3394270, -8444070)
  /\ map.businesses = <<>>
  /\ map.region = Region(3394270, -8444070, 9220, 4210)

\* the user and the first business are the same point
C14_coincide ==
  /\ map.userLocation.latitude = map.businesses[1].location.coordinates[2]
  /\ map.userLocation.longitude = map.businesses[1].location.coordinates[1]

\* C14: under rule 1 both deltas are at least 0.05, and both equal 0.05 when
\* the user location and the first business coincide
C14_NeverDegenerate ==
  (map.userLocation.present /\ Len(map.businesses) > 0) =>
    /\ map.region.latitudeDelta >= 5000
    /\ map.region.longitudeDelta >= 5000
    /\ C14_coincide =>
         /\ map.region.latitudeDelta = 5000
         /\ map.region.longitudeDelta = 5000

\* the user stands at the first business, in Marietta
C14_Witness ==
  /\ map.userLocation = Location(3394270, -8444070)
  /\ Len(map.businesses) > 0
  /\ C14_coincide
  /\ map.region = Region(3394270, -8444070, 5000, 5000)

\* the centre of the region is the point (latitude, longitude)
C15_centredOn(latitude, longitude) ==
  /\ map.region.latitude = latitude
  /\ map.region.longitude = longitude

\* C15 as stated: under rule 1 latitudeDelta is at least 0.05, the centre is
\* strictly between the two points (on neither of them), and the centre is
\* never the metro-default centre (33.7490, -84.3880)
C15_StrictlyBetweenNeverDefault ==
  (map.userLocation.present /\ Len(map.businesses) > 0) =>
    /\ map.region.latitudeDelta >= 5000
    /\ ~C15_centredOn(map.userLocation.latitude, map.userLocation.longitude)
    /\ ~C15_centredOn(map.businesses[1].location.coordinates[2],
                      map.businesses[1].location.coordinates[1])
    /\ ~C15_centredOn(3374900, -8438800)

\* C15 amended: under rule 1 latitudeDelta is at least 0.05 and the centre
\* is the midpoint of the two points; it is on neither point unless the two
\* coincide, and it is the metro-default centre only when the midpoint of
\* the two points is that centre
C15_MidpointOfTheTwo ==
  (map.userLocation.present /\ Len(map.businesses) > 0) =>
    LET userLat == map.userLocation.latitude
        userLng == map.userLocation.longitude
        businessLat == map.businesses[1].location.coordinates[2]
        businessLng == map.businesses[1].location.coordinates[1]
    IN /\ map.region.latitudeDelta >= 5000
       /\ C15_centredOn((userLat + businessLat) \div 2, (userLng + businessLng) \div 2)
       /\ ~C14_coincide =>
            /\ ~C15_centredOn(userLat, userLng)
            /\ ~C15_centredOn(businessLat, businessLng)
       /\ C15_centredOn(3374900, -8438800) =>
            /\ userLat + businessLat = 2 * 3374900
            /\ userLng + businessLng = 2 * (-8438800)

\* the user is at the development fallback point and so is the first
\* business: rule 1 centres the map on the metro-default centre
C15_Witness ==
  /\ map.userLocation = fallbackLocation
  /\ Len(map.businesses) > 0
  /\ map.businesses[1].location.coordinates = <<-8438800, 3374900>>
  /\ map.rule = 1
  /\ C15_centredOn(3374900, -8438800)

\* C16: whenever the user location or the list of businesses changes, the
\* region computed by the effect, whichever rule produced it, is set as the
\* region of the map and its animation is started in the same step
C16_SetAndAnimated ==
  [][(map'.userLocation # map.userLocation \/ map'.businesses # map.businesses) =>
       /\ map'.region = useEffect(map'.userLocation, map'.businesses,
                                  map'.centerOnNearestBusiness,
                                  map'.showUserAndNearestBusiness).region
       /\ Len(map'.timers) = Len(map.timers) + 1
       /\ map'.timers[Len(map'.timers)] = map'.region]_vars

(***************************************************************************)
(* Cancelling a booking.                                                   *)
(***************************************************************************)
\* the rule of eligibility: neither completed nor cancelled, and the start
\* more than one hour after now
C17_eligible(shown, now) ==
  /\ shown.status \notin {"completed", "cancelled"}
  /\ shown.startTime - now > MsPerHour

\* BookingsScreen has rendered the card of a booking in this step
C17_rendered ==
  /\ ui' # ui
  /\ ui'.screen = "Bookings"
  /\ ui'.now = ui.now
  /\ ui'.alert = ui.alert
  /\ ui'.cancelling = ui.cancelling

\* C17: BookingsScreen offers the cancellation of a booking never when its
\* status is completed or cancelled; for a confirmed booking it does not
\* when the start is less than one hour or exactly one hour from now, and
\* does when the start is more than one hour from now
C17_CancelEligibility ==
  [][(C17_rendered /\ ui'.shown.status \in {"completed", "cancelled", "confirmed"}) =>
       (ui'.button <=> C17_eligible(ui'.shown, ui'.now))]_vars

\* a cancelBooking request has been dispatched in this step
C18_dispatched ==
  /\ Len(inflight') = Len(inflight) + 1
  /\ inflight'[Len(inflight')].op = "cancelBooking"

\* C18: on either screen a cancelBooking request is dispatched only for a
\* booking that is neither completed nor cancelled and that starts more
\* than one hour after the moment of the dispatch
C18_CancelOnlyWhenEligible ==
  [][C18_dispatched => C17_eligible(ui.shown, ui.now)]_vars

(***************************************************************************)
(* The location service.                                                   *)
(***************************************************************************)
\* the class of a positioning error, by the message it is reported with
C19_class(message) ==
  CASE message = "Location access denied. Please enable location permissions in settings."
         -> "denied"
    [] message = "Unable to determine location. Please check your GPS/network connection."
         -> "unavailable"
    [] message = "Location request timed out. Please try again."
         -> "timeout"
    [] message = "An unknown location error occurred."
         -> "unknown"
    [] OTHER -> "none"

\* C19: in a development build getCurrentLocation never rejects, and after a
\* positioning failure it has resolved to the fallback point (33.7490,
\* -84.3880); in a production build a positioning failure rejects, with an
\* error classified by its code as denied (1), unavailable (2), timeout (3)
\* or unknown (any other code), and does not resolve to anything
C19_FailureByBuild ==
  /\ dev => geo.phase # "rejected"
  /\ (dev /\ geo.failed) =>
       /\ geo.phase \in {"resolved", "idle"}
       /\ geo.value = Location(3374900, -8438800)
  /\ (~dev /\ geo.failed) =>
       /\ geo.phase \in {"rejected", "idle"}
       /\ ~geo.value.present
       /\ C19_class(geo.message) =
            (CASE geo.code = 1 -> "denied"
               [] geo.code = 2 -> "unavailable"
               [] geo.code = 3 -> "timeout"
               [] OTHER -> "unknown")

\* a development build has answered a positioning failure with the fallback
C19_Witness ==
  /\ dev
  /\ geo.failed
  /\ geo.phase = "resolved"
  /\ geo.value = fallbackLocation

(***************************************************************************)
(* The debug table of ZIP codes.                                           *)
(***************************************************************************)
\* the ZIP codes of the table among the queries
C20_inTable == {"30308"}

\* C20: in a production build a ZIP search does not use a coordinate of the
\* debug table, also for a ZIP code in the table: it is sent as a search by
\* ZIP code
C20_DebugTableInDevelopmentOnly ==
  [][\A zipCode \in C20_inTable :
       (~dev /\ handleSearch(zipCode, TRUE)) =>
         /\ inflight'[Len(inflight')].op = "searchBusinesses"
         /\ inflight'[Len(inflight')].arg = "zipCode"]_vars

(***************************************************************************)
(* Requests and the persisted token.                                       *)
(***************************************************************************)
\* a request has been prepared in this step
C21_prepared == Len(inflight') = Len(inflight) + 1

\* C21: a request carries the Authorization bearer header exactly when a
\* token is in persisted storage at the moment it is prepared, with that
\* value; without a stored token it is still sent, without the header, and
\* nothing is rejected on its account
C21_BearerIffStored ==
  [][C21_prepared =>
       LET request == inflight'[Len(inflight')]
       IN /\ request.phase = "sent"
          /\ lastAction'.phase = "pending"
          /\ storage.auth_token # NULL =>
               request.hdr = "Bearer " \o storage.auth_token
          /\ storage.auth_token = NULL => request.hdr = NULL]_vars

\* a request is on its way without the header while the 401 handler of
\* another request, which has removed the token, is still running
C21_Witness ==
  \E i, j \in DOMAIN inflight :
    /\ inflight[i].phase \in {"removeUserData", "reject"}
    /\ inflight[i].hdr # NULL
    /\ inflight[j].phase = "sent"
    /\ inflight[j].hdr = NULL
    /\ storage.auth_token = NULL
    /\ auth.token # NULL

(***************************************************************************)
(* Validation of a booking.                                                *)
(***************************************************************************)
\* a createBooking request has been dispatched in this step
C22_dispatched ==
  /\ Len(inflight') = Len(inflight) + 1
  /\ inflight'[Len(inflight')].op = "createBooking"

\* C22: no createBooking request is dispatched whose end time is not after
\* its start time or whose duration exceeds 10 hours
C22_ValidatedBooking ==
  [][C22_dispatched =>
       /\ ui.form.endTime > ui.form.startTime
       /\ ui.form.endTime - ui.form.startTime <= 10 * MsPerHour]_vars

(***************************************************************************)
(* Distances.                                                              *)
(***************************************************************************)
\* C23: the distance of two points is the distance of the same points in
\* the other order, and it is zero if and only if the two are the same
\* point
C23_SymmetricZeroIffSame ==
  geo.measured.called =>
    LET m == geo.measured
    IN /\ m.distance = calculateDistance(m.lat2, m.lon2, m.lat1, m.lon1)
       /\ m.distance = 0 <=> (m.lat1 = m.lat2 /\ m.lon1 = m.lon2)

\* the distance from a point on the equator to a point at another latitude
\* and longitude has been computed
C23_Witness ==
  /\ geo.measured.called
  /\ geo.measured.lat1 = 0
  /\ geo.measured.lat2 = 60
  /\ geo.measured.lon1 # geo.measured.lon2
  /\ geo.measured.distance > 0

(***************************************************************************)
(* Interleavings within a container.                                       *)
(***************************************************************************)
\* C24: the bookings list holds at most one entry per booking id
C24_OneEntryPerId ==
  \A i, j \in DOMAIN booking.bookings :
    booking.bookings[i]._id = booking.bookings[j]._id => i = j

\* an operation of the set is in flight
C25_outstanding(ops) ==
  \E i \in DOMAIN inflight : inflight[i].op \in ops

\* C25: isLoading of a container is true in every state in which one of its
\* operations that has a start phase is in flight
C25_LoadingWhileOutstanding ==
  /\ C25_outstanding({"searchBusinesses", "fetchNearbyBusinesses", "fetchBusinessById"})
       => business.isLoading
  /\ C25_outstanding({"createBooking", "fetchUserBookings", "cancelBooking"})
       => booking.isLoading

(***************************************************************************)
(* The session.                                                            *)
(***************************************************************************)
\* C26: in the auth container isAuthenticated is true if and only if user
\* is set, and then token is set
C26_AuthenticatedIffUser ==
  /\ auth.isAuthenticated <=> auth.user # NULL
  /\ auth.isAuthenticated => auth.token # NULL


(***************************************************************************)
(* Check-in and check-out of a signed-in user, with the fetch that fills   *)
(* the list of bookings.                                                   *)
(***************************************************************************)
NextLocker ==
  \/ DispatchFetchUserBookings
  \/ DispatchCheckInToLocker
  \/ DispatchCheckOutFromLocker
  \/ Respond200

SpecLocker == InitSignedIn /\ [][NextLocker]_vars

\* C27: after checkInToLocker is fulfilled with a booking whose status is
\* "active", that booking is a member of activeBookings, also when no entry
\* of activeBookings had its id before; after checkOutFromLocker is
\* fulfilled with a booking, that booking is not a member of activeBookings.
C27_ActiveAfterCheckIn ==
  [][lastAction'.thunk \in {"checkInToLocker", "checkOutFromLocker"}
       /\ lastAction'.phase = "fulfilled" =>
       \A i \in DOMAIN inflight :
         \A b \in Booking :
           /\ inflight[i].op = "checkInToLocker"
                /\ respond200(i, b) /\ b.status = "active" =>
                Member(booking'.activeBookings, b)
           /\ inflight[i].op = "checkOutFromLocker" /\ respond200(i, b) =>
                ~Member(booking'.activeBookings, b)]_vars


\* C28: an animation scheduled by an earlier run of the effect never takes
\* effect after a later run has set a different region: when the last
\* pending animation fires, so that no run of the effect is still to be
\* animated, the region the map is animated to is the region set by the
\* last run of the effect.
C28_LastAnimationShowsLastRegion ==
  [][AnimateToRegion /\ map'.timers = <<>> =>
       map'.animated = map'.region]_vars


\* the 401 handler of request i does one of its two removals in this step,
\* and the request had been prepared with another token than the one stored
\* now or with none, so before the login or registration that stored it
C29_earlier401(i) ==
  /\ inflight[i].hdr # Authorization(storage.auth_token)
  /\ i \in DOMAIN inflight'
  /\ \/ inflight[i].phase = "sent" /\ inflight'[i].phase = "removeUserData"
     \/ inflight[i].phase = "removeUserData" /\ inflight'[i].phase = "reject"

\* C29: a 401 answer to a request that was issued before a successful login
\* or registration never removes the token and the user record persisted by
\* that login: the removals of its handler leave storage as it is.
C29_Earlier401KeepsNewSession ==
  [][\A i \in DOMAIN inflight :
       C29_earlier401(i) /\ storage.auth_token # NULL => storage' = storage]_vars


(***************************************************************************)
(* A signed-in user loads their bookings and signs out.                    *)
(***************************************************************************)
NextLogout ==
  \/ DispatchFetchUserBookings
  \/ DispatchFetchActiveBookings
  \/ Respond200
  \/ DispatchLogoutUser
  \/ LogoutRemoveUserData
  \/ LogoutReturn

SpecLogout == InitSignedIn /\ [][NextLogout]_vars

\* C30: after logoutUser is fulfilled no data of the signed-out user remains
\* in the client: bookings and activeBookings of the booking container are
\* empty and its selectedBooking is null.
C30_LogoutClearsBookings ==
  [][\A i \in DOMAIN inflight :
       logoutReturn(i) =>
         /\ booking'.bookings = <<>>
         /\ booking'.activeBookings = <<>>
         /\ booking'.selectedBooking = NoBooking]_vars

====
